---- MODULE Spec2Model ----
(***************************************************************************)
(* Event::decode of src/event.rs: a log (topics, data) is decoded against  *)
(* an event schema.  Bytes are modelled as sequences of 0..255, an H256 as *)
(* a sequence of 32 bytes, a ParamType and a Token as records.             *)
(***************************************************************************)
EXTENDS Naturals, Sequences, FiniteSets, TLC

VARIABLES
    event,      \* the Event the calls are made on: signature, inputs, anonymous
    decoder,    \* behaviour of crate::decode: "exact", or "short" (drops a token)
    topics,     \* topics argument of the last call
    data,       \* data argument of the last call
    result,     \* outcome of the last call: Ok(tokens), Err(e), a panic, or no call yet
    calls,      \* the calls of crate::decode the last call made, in order
    sig_read    \* whether the last call read topics.get(0) as a signature

vars == <<event, decoder, topics, data, result, calls, sig_read>>

----------------------------------------------------------------------------
(* Bounds of the model. *)

\* longest inputs list of a schema
MaxInputs == 3

\* longest topics list of a log
MaxTopics == 4

----------------------------------------------------------------------------
(* Bytes and words. *)

\* an H256 / an ABI slot holds 32 bytes
H256Len == 32

\* the 32-byte big-endian word of a small number n < 256
Word(n) == [i \in 1..H256Len |-> IF i = H256Len THEN n ELSE 0]

Min(a, b) == IF a <= b THEN a ELSE b

\* tiny_keccak's keccak-256, tabulated on the signatures of the model
keccak256(sig) ==
    CASE sig = "foo(int256,int256,address,address,string,int256[],address[5])" ->
           <<165, 91, 46, 92, 171, 119, 124, 109, 93, 76, 43, 3, 243, 217, 2, 46,
             12, 190, 101, 35, 234, 105, 213, 138, 155, 173, 130, 220, 91, 202, 34, 160>>
      [] sig = "bar(bool)" ->
           <<111, 174, 148, 18, 241, 202, 145, 81, 245, 26, 216, 188, 94, 77, 57, 134,
             155, 29, 79, 128, 38, 115, 65, 114, 248, 6, 1, 217, 66, 125, 184, 117>>

----------------------------------------------------------------------------
(* ParamType and Token (crate::ParamType, crate::Token). *)

ParamType(tag, size, inner) == [tag |-> tag, size |-> size, inner |-> inner]

Address == ParamType("Address", 0, <<>>)
Bytes == ParamType("Bytes", 0, <<>>)
Int(n) == ParamType("Int", n, <<>>)
Uint(n) == ParamType("Uint", n, <<>>)
Bool == ParamType("Bool", 0, <<>>)
String == ParamType("String", 0, <<>>)
Array(k) == ParamType("Array", 0, <<k>>)
FixedBytes(n) == ParamType("FixedBytes", n, <<>>)
FixedArray(k, n) == ParamType("FixedArray", n, <<k>>)
Tuple(ks) == ParamType("Tuple", 0, ks)

Token(tag, bytes, items) == [tag |-> tag, bytes |-> bytes, items |-> items]

Param(kind, indexed) == [kind |-> kind, indexed |-> indexed]

Ok(tokens) == [kind |-> "Ok", tokens |-> tokens, err |-> ""]
Err(e) == [kind |-> "Err", tokens |-> <<>>, err |-> e]
Panic(why) == [kind |-> "Panic", tokens |-> <<>>, err |-> why]
NoCall == [kind |-> "None", tokens |-> <<>>, err |-> ""]

----------------------------------------------------------------------------
(* crate::decode, the generic ABI decoder.  It decodes one token per type  *)
(* descriptor from a prefix of the bytes, or fails.  Head slots are 32     *)
(* bytes; Bytes, String and Array keep an offset in their head slot.       *)
(* Element types of Array, FixedArray and Tuple are static in this model.  *)

NoToken == Token("", <<>>, <<>>)

ParamOk(token, new_offset) ==
    [ok |-> TRUE, tokens |-> <<token>>, new_offset |-> new_offset, err |-> ""]

ParamsOk(tokens, new_offset) ==
    [ok |-> TRUE, tokens |-> tokens, new_offset |-> new_offset, err |-> ""]

ParamErr(e) == [ok |-> FALSE, tokens |-> <<>>, new_offset |-> 0, err |-> e]

has_32_bytes(bytes, offset) == offset + H256Len <= Len(bytes)

peek_32_bytes(bytes, offset) == SubSeq(bytes, offset + 1, offset + H256Len)

\* a slot holds a u32 when its upper 28 bytes are zero
is_u32(slot) == \A i \in 1..(H256Len - 4) : slot[i] = 0

as_u32(slot) ==
    ((slot[H256Len - 3] * 256 + slot[H256Len - 2]) * 256 + slot[H256Len - 1]) * 256
        + slot[H256Len]

\* a slot holds a bool when it is the word of 0 or of 1
is_bool(slot) == (\A i \in 1..(H256Len - 1) : slot[i] = 0) /\ slot[H256Len] \in {0, 1}

Repeat(k, n) == [i \in 1..n |-> k]

\* the token of a one-slot value: Int, Uint, Address, Bool, FixedBytes(n)
static_token(kind, slot, next) ==
    CASE kind.tag \in {"Int", "Uint"} ->
           ParamOk(Token(kind.tag, slot, <<>>), next)
      [] kind.tag = "Address" ->
           ParamOk(Token("Address", SubSeq(slot, 13, H256Len), <<>>), next)
      [] kind.tag = "Bool" ->
           IF is_bool(slot)
           THEN ParamOk(Token("Bool", <<slot[H256Len]>>, <<>>), next)
           ELSE ParamErr("Malformed")
      [] kind.tag = "FixedBytes" ->
           ParamOk(Token("FixedBytes", SubSeq(slot, 1, kind.size), <<>>), next)

decode_static(kind, bytes, offset) ==
    IF ~has_32_bytes(bytes, offset) THEN ParamErr("Truncated")
    ELSE static_token(kind, peek_32_bytes(bytes, offset), offset + H256Len)

\* the static elements of an Array, a FixedArray or a Tuple, slot after slot
RECURSIVE decode_elements(_, _, _, _)
RECURSIVE next_element(_, _, _, _)

decode_elements(kinds, bytes, offset, acc) ==
    IF Len(kinds) = 0 THEN ParamsOk(acc, offset)
    ELSE next_element(kinds, bytes, acc, decode_static(Head(kinds), bytes, offset))

next_element(kinds, bytes, acc, r) ==
    IF r.ok THEN decode_elements(Tail(kinds), bytes, r.new_offset, acc \o r.tokens)
    ELSE ParamErr(r.err)

\* the composite token of decoded elements
composite_token(tag, r, new_offset) ==
    IF r.ok THEN ParamOk(Token(tag, <<>>, r.tokens), new_offset) ELSE ParamErr(r.err)

TailOk(at, len) == [ok |-> TRUE, err |-> "", at |-> at, len |-> len]
TailErr(e) == [ok |-> FALSE, err |-> e, at |-> 0, len |-> 0]

\* the tail a dynamic value's head slot points to: where its content starts and
\* the length its length word holds
tail_len(at, slot) ==
    IF is_u32(slot) THEN TailOk(at + H256Len, as_u32(slot)) ELSE TailErr("Malformed")

tail_at(bytes, at) ==
    IF has_32_bytes(bytes, at) THEN tail_len(at, peek_32_bytes(bytes, at))
    ELSE TailErr("Truncated")

tail_offset(bytes, slot) ==
    IF is_u32(slot) THEN tail_at(bytes, as_u32(slot)) ELSE TailErr("Malformed")

dynamic_tail(bytes, offset) ==
    IF has_32_bytes(bytes, offset) THEN tail_offset(bytes, peek_32_bytes(bytes, offset))
    ELSE TailErr("Truncated")

decode_bytes(kind, bytes, offset, t) ==
    IF ~t.ok THEN ParamErr(t.err)
    ELSE IF t.at + t.len > Len(bytes) THEN ParamErr("Truncated")
    ELSE ParamOk(Token(kind.tag, SubSeq(bytes, t.at + 1, t.at + t.len), <<>>),
                 offset + H256Len)

decode_array(kind, bytes, offset, t) ==
    IF ~t.ok THEN ParamErr(t.err)
    ELSE IF t.at + t.len * H256Len > Len(bytes) THEN ParamErr("Truncated")
    ELSE composite_token("Array",
                         decode_elements(Repeat(kind.inner[1], t.len),
                                         SubSeq(bytes, t.at + 1, Len(bytes)), 0, <<>>),
                         offset + H256Len)

decode_param(kind, bytes, offset) ==
    CASE kind.tag \in {"Int", "Uint", "Address", "Bool", "FixedBytes"} ->
           decode_static(kind, bytes, offset)
      [] kind.tag \in {"Bytes", "String"} ->
           decode_bytes(kind, bytes, offset, dynamic_tail(bytes, offset))
      [] kind.tag = "Array" ->
           decode_array(kind, bytes, offset, dynamic_tail(bytes, offset))
      [] kind.tag = "FixedArray" ->
           composite_token("FixedArray",
                           decode_elements(Repeat(kind.inner[1], kind.size),
                                           bytes, offset, <<>>),
                           offset + kind.size * H256Len)
      [] kind.tag = "Tuple" ->
           composite_token("Tuple", decode_elements(kind.inner, bytes, offset, <<>>),
                           offset + Len(kind.inner) * H256Len)

\* one token per type descriptor, each from the offset the one before it left
RECURSIVE decode_params(_, _, _, _)
RECURSIVE next_param(_, _, _, _)

decode_params(kinds, bytes, offset, acc) ==
    IF Len(kinds) = 0 THEN ParamsOk(acc, offset)
    ELSE next_param(kinds, bytes, acc, decode_param(Head(kinds), bytes, offset))

next_param(kinds, bytes, acc, r) ==
    IF r.ok THEN decode_params(Tail(kinds), bytes, r.new_offset, acc \o r.tokens)
    ELSE ParamErr(r.err)

decode_outcome(r) == IF r.ok THEN Ok(r.tokens) ELSE Err(r.err)

\* a decoder that keeps its contract: one token per type descriptor, or an error
decode_exact(types, bytes) == decode_outcome(decode_params(types, bytes, 0, <<>>))

\* a decoder that breaks its contract: it reports success without the last token
decode_short(types, bytes) ==
    IF Len(types) = 0 THEN decode_exact(types, bytes)
    ELSE decode_exact(SubSeq(types, 1, Len(types) - 1), bytes)

decode(types, bytes) ==
    IF decoder = "short" THEN decode_short(types, bytes) ELSE decode_exact(types, bytes)

----------------------------------------------------------------------------
(* Event (src/event.rs). *)

Event(signature, inputs, anonymous) ==
    [signature |-> signature, inputs |-> inputs, anonymous |-> anonymous]

signature_keccak256(ev) == keccak256(ev.signature)

indexed_params(ev, indexed) == SelectSeq(ev.inputs, LAMBDA p : p.indexed = indexed)

\* inputs.iter().enumerate().filter(..).map(|(i, _)| i), from position i on (0-based)
RECURSIVE enumerate_filter(_, _, _)
enumerate_filter(inputs, indexed, i) ==
    IF i >= Len(inputs) THEN <<>>
    ELSE (IF inputs[i + 1].indexed = indexed THEN <<i>> ELSE <<>>)
             \o enumerate_filter(inputs, indexed, i + 1)

\* faulty variant: the positions within the filtered list, not within inputs
indices_by_rank(ev, indexed) ==
    [k \in 1..Len(indexed_params(ev, indexed)) |-> k - 1]

indices(ev, indexed) == enumerate_filter(ev.inputs, indexed, 0)

\* faulty variant: the hash of a dynamic value taken for a number
convert_topic_param_type_uint(kind) ==
    IF kind.tag \in {"String", "Bytes", "Array", "FixedArray", "Tuple"}
    THEN Uint(256)
    ELSE kind

convert_topic_param_type(kind) ==
    IF kind.tag \in {"String", "Bytes", "Array", "FixedArray", "Tuple"}
    THEN FixedBytes(32)
    ELSE kind

\* faulty variant: the first topic is skipped without being compared
to_skip_uncompared(ev, tps) ==
    IF ev.anonymous THEN [ok |-> TRUE, skip |-> 0, read |-> FALSE]
    ELSE IF Len(tps) = 0 THEN [ok |-> FALSE, skip |-> 0, read |-> TRUE]
    ELSE [ok |-> TRUE, skip |-> 1, read |-> TRUE]

\* faulty variant: the signature topic is verified for anonymous events too
to_skip_always(ev, tps) ==
    IF Len(tps) = 0 THEN [ok |-> FALSE, skip |-> 0, read |-> TRUE]
    ELSE IF tps[1] # signature_keccak256(ev) THEN [ok |-> FALSE, skip |-> 0, read |-> TRUE]
    ELSE [ok |-> TRUE, skip |-> 1, read |-> TRUE]

\* the `to_skip` block: whether decoding goes on, the topics to skip, and whether
\* topics.get(0) was read as the signature topic
to_skip(ev, tps) ==
    IF ev.anonymous THEN [ok |-> TRUE, skip |-> 0, read |-> FALSE]
    ELSE IF Len(tps) = 0 THEN [ok |-> FALSE, skip |-> 0, read |-> TRUE]
    ELSE IF tps[1] # signature_keccak256(ev) THEN [ok |-> FALSE, skip |-> 0, read |-> TRUE]
    ELSE [ok |-> TRUE, skip |-> 1, read |-> TRUE]

\* topics.into_iter().skip(n).flat_map(|t| t.as_ref().to_vec()).collect()
RECURSIVE flat_topics(_, _)
flat_topics(tps, n) ==
    IF n >= Len(tps) THEN <<>>
    ELSE tps[n + 1] \o flat_topics(tps, n + 1)

\* faulty variant: the count of topic tokens is not checked
topic_count_unchecked(n_tokens, topics_len, skip, overflow_checks) == "equal"

\* `topic_tokens.len() != topics_len - to_skip` on usize: with topics_len < to_skip
\* the subtraction panics when overflow checks are on and wraps to a value above
\* every Vec length (so the lengths differ) when they are off
topic_count_check(n_tokens, topics_len, skip, overflow_checks) ==
    IF topics_len < skip THEN (IF overflow_checks THEN "panic" ELSE "differ")
    ELSE IF n_tokens # topics_len - skip THEN "differ"
    ELSE "equal"

\* Iterator::zip stops at the shorter side
zip(a, b) == [k \in 1..Min(Len(a), Len(b)) |-> <<a[k], b[k]>>]

\* collect::<BTreeMap<usize, Token>>(): a later pair replaces an earlier one
collect_BTreeMap(pairs) ==
    LET keys == {pairs[k][1] : k \in 1..Len(pairs)}
        last(key) == CHOOSE k \in 1..Len(pairs) :
                         /\ pairs[k][1] = key
                         /\ \A j \in (k + 1)..Len(pairs) : pairs[j][1] # key
    IN  [key \in keys |-> pairs[last(key)][2]]

\* faulty variant: the two index lists taken for one another
named_tokens_swapped(topic_params_index, topic_tokens, data_params_index, data_tokens) ==
    collect_BTreeMap(zip(data_params_index, topic_tokens)
                         \o zip(topic_params_index, data_tokens))

named_tokens(topic_params_index, topic_tokens, data_params_index, data_tokens) ==
    collect_BTreeMap(zip(topic_params_index, topic_tokens)
                         \o zip(data_params_index, data_tokens))

\* `named_tokens[&i]` for every i of inputs: Index on a BTreeMap panics on a missing key
reassemble(ev, named) ==
    IF \A i \in 0..(Len(ev.inputs) - 1) : i \in DOMAIN named
    THEN Ok([k \in 1..Len(ev.inputs) |-> named[k - 1]])
    ELSE Panic("key not found")

\* faulty variant: every error of the decoder turned into InvalidData
question_mark_invalid_data(out) == Err("InvalidData")

\* the `?` operator: Ok goes on, Err(e) is returned as Err(From::from(e)), e itself
question_mark(out) == out

Call(types, bytes, out) == [types |-> types, bytes |-> bytes, out |-> out]

\* decode(&types, &bytes), kept with its arguments
call_decode(types, bytes) == Call(types, bytes, decode(types, bytes))

Outcome(res, made, read) == [result |-> res, calls |-> made, sig_read |-> read]

topic_types(ev) ==
    [k \in 1..Len(indexed_params(ev, TRUE)) |->
        convert_topic_param_type(indexed_params(ev, TRUE)[k].kind)]

\* faulty variant: the substitution applied to the data types too
data_types_converted(ev) ==
    [k \in 1..Len(indexed_params(ev, FALSE)) |->
        convert_topic_param_type(indexed_params(ev, FALSE)[k].kind)]

data_types(ev) ==
    [k \in 1..Len(indexed_params(ev, FALSE)) |-> indexed_params(ev, FALSE)[k].kind]

\* Event::decode from the second call of crate::decode on: `?`, then the reassembly
decode_after_data(ev, sig, call1, call2) ==
    IF call2.out.kind = "Err"
    THEN Outcome(question_mark(call2.out), <<call1, call2>>, sig.read)
    ELSE Outcome(reassemble(ev, named_tokens(indices(ev, TRUE), call1.out.tokens,
                                             indices(ev, FALSE), call2.out.tokens)),
                 <<call1, call2>>, sig.read)

\* Event::decode from the count check on
decode_after_count(ev, dat, sig, call1, check) ==
    IF check = "panic"
    THEN Outcome(Panic("attempt to subtract with overflow"), <<call1>>, sig.read)
    ELSE IF check = "differ"
    THEN Outcome(Err("InvalidData"), <<call1>>, sig.read)
    ELSE decode_after_data(ev, sig, call1, call_decode(data_types(ev), dat))

\* Event::decode from the first call of crate::decode on: `?`, then the count check
decode_after_topics(ev, tps, dat, overflow_checks, sig, call1) ==
    IF call1.out.kind = "Err"
    THEN Outcome(question_mark(call1.out), <<call1>>, sig.read)
    ELSE decode_after_count(ev, dat, sig, call1,
                            topic_count_check(Len(call1.out.tokens), Len(tps),
                                              sig.skip, overflow_checks))

\* Event::decode from the `to_skip` block on
decode_after_skip(ev, tps, dat, overflow_checks, sig) ==
    IF ~sig.ok THEN Outcome(Err("InvalidData"), <<>>, sig.read)
    ELSE decode_after_topics(ev, tps, dat, overflow_checks, sig,
                             call_decode(topic_types(ev), flat_topics(tps, sig.skip)))

Event_decode(ev, tps, dat, overflow_checks) ==
    decode_after_skip(ev, tps, dat, overflow_checks, to_skip(ev, tps))

----------------------------------------------------------------------------
(* The schemas and logs of the model. *)

Signatures ==
    {"foo(int256,int256,address,address,string,int256[],address[5])", "bar(bool)"}

\* the kinds a schema draws from: every variant of ParamType
Kinds ==
    <<Int(256), String, Address, Array(Int(256)), Bool, Bytes, FixedBytes(32),
      FixedArray(Address, 2), Uint(256), Tuple(<<Bool, Int(256)>>), FixedBytes(4)>>

\* n inputs with consecutive kinds of Kinds from the r-th on, flagged by flags
InputsOf(n, r, flags) ==
    [i \in 1..n |-> Param(Kinds[((r + i - 2) % Len(Kinds)) + 1], flags[i])]

Events ==
    UNION {{Event(s, InputsOf(n, r, flags), a) :
                s \in Signatures, r \in 1..Len(Kinds),
                flags \in [1..n -> BOOLEAN], a \in BOOLEAN} : n \in 0..MaxInputs}

\* topic values: the signature hash of the schema and the word of 1
TopicWords(ev) == {signature_keccak256(ev), Word(1)}

\* an address in its slot: 12 zero bytes, then the 20 bytes of the address
AddressWord(b) == [i \in 1..H256Len |-> IF i <= 12 THEN 0 ELSE b]

\* int256(3) followed by address(0x2222..22)
DataStatic == Word(3) \o AddressWord(34)

\* a head of two slots (an offset of 64 and the word of 7), then a tail of length 1
DataDynamic == Word(64) \o Word(7) \o Word(1) \o keccak256("bar(bool)")

DataSet == {<<>>, DataStatic, DataDynamic, SubSeq(DataStatic, 1, 40)}

----------------------------------------------------------------------------
(* The state machine: one Event; its caller assembles a log, decodes it,    *)
(* drops the outcome and the log, and assembles the next one.              *)

Init ==
    /\ event \in Events
    /\ decoder = "exact"
    /\ topics = <<>>
    /\ data = <<>>
    /\ result = NoCall
    /\ calls = <<>>
    /\ sig_read = FALSE

\* the caller pushes a topic onto the log it assembles
PushTopic(t) ==
    /\ result = NoCall
    /\ Len(topics) < MaxTopics
    /\ topics' = Append(topics, t)
    /\ UNCHANGED <<event, decoder, data, result, calls, sig_read>>

\* the caller sets the data of the log it assembles
SetData(dat) ==
    /\ result = NoCall
    /\ data = <<>>
    /\ dat # <<>>
    /\ data' = dat
    /\ UNCHANGED <<event, decoder, topics, result, calls, sig_read>>

\* event.decode(topics, data), in a build with or without overflow checks
Return(out) ==
    /\ result' = out.result
    /\ calls' = out.calls
    /\ sig_read' = out.sig_read

\* faulty variant: the indexed params are moved out of self.inputs by the call
Decode_draining(overflow_checks) ==
    /\ Return(Event_decode(event, topics, data, overflow_checks))
    /\ event' = [event EXCEPT !.inputs = indexed_params(event, FALSE)]
    /\ UNCHANGED <<decoder, topics, data>>

Decode(overflow_checks) ==
    /\ Return(Event_decode(event, topics, data, overflow_checks))
    /\ UNCHANGED <<event, decoder, topics, data>>

\* the caller drops the outcome and starts the next log
NextLog ==
    /\ result # NoCall
    /\ topics' = <<>>
    /\ data' = <<>>
    /\ result' = NoCall
    /\ calls' = <<>>
    /\ sig_read' = FALSE
    /\ UNCHANGED <<event, decoder>>

Next ==
    \/ \E t \in TopicWords(event) : PushTopic(t)
    \/ \E dat \in DataSet : SetData(dat)
    \/ \E overflow_checks \in BOOLEAN : Decode(overflow_checks)
    \/ NextLog

Spec == Init /\ [][Next]_vars

\* the same calls with a decoder that breaks its contract
InitShort ==
    /\ event \in Events
    /\ decoder = "short"
    /\ topics = <<>>
    /\ data = <<>>
    /\ result = NoCall
    /\ calls = <<>>
    /\ sig_read = FALSE

SpecShort == InitShort /\ [][Next]_vars

----------------------------------------------------------------------------
(* What the properties speak of, defined apart from the operators above. *)

Called == result # NoCall

\* the number of topics a non-anonymous event gives to its signature
Skip == IF event.anonymous THEN 0 ELSE 1

\* how many inputs before the i-th (1-based) carry the flag of the i-th
Rank(i) ==
    Cardinality({j \in 1..(i - 1) : event.inputs[j].indexed = event.inputs[i].indexed})

NumIndexed == Cardinality({j \in 1..Len(event.inputs) : event.inputs[j].indexed})

IsDynamicKind(kind) == kind.tag \in {"String", "Bytes", "Array", "FixedArray", "Tuple"}

RECURSIVE Concat(_)
Concat(words) == IF Len(words) = 0 THEN <<>> ELSE Head(words) \o Concat(Tail(words))

\* the i-th input is the k-th of its flag exactly when it carries the flag and k - 1
\* inputs of that flag come before it
NthWithFlag(flag, k) ==
    CHOOSE i \in 1..Len(event.inputs) :
        event.inputs[i].indexed = flag /\ Rank(i) = k - 1

\* the type descriptor the i-th input is to be decoded with
ExpectedType(i) ==
    IF event.inputs[i].indexed /\ IsDynamicKind(event.inputs[i].kind)
    THEN FixedBytes(32)
    ELSE event.inputs[i].kind

\* the type descriptor the decoder was handed for the i-th input
HandedType(i) ==
    IF event.inputs[i].indexed THEN calls[1].types[Rank(i) + 1]
    ELSE calls[2].types[Rank(i) + 1]

----------------------------------------------------------------------------
(* The properties. *)

\* C1: a successful decode returns one token per input, in the order of inputs: the
\* token of the k-th indexed input is the k-th token decoded from the topics, the
\* token of the j-th non-indexed input is the j-th token decoded from data.
C1_OrderPreserved ==
    result.kind = "Ok" =>
        /\ Len(result.tokens) = Len(event.inputs)
        /\ Len(calls) = 2
        /\ \A i \in 1..Len(event.inputs) :
               IF event.inputs[i].indexed
               THEN /\ Rank(i) + 1 <= Len(calls[1].out.tokens)
                    /\ result.tokens[i] = calls[1].out.tokens[Rank(i) + 1]
               ELSE /\ Rank(i) + 1 <= Len(calls[2].out.tokens)
                    /\ result.tokens[i] = calls[2].out.tokens[Rank(i) + 1]

\* a successful decode of three inputs, indexed and non-indexed ones interleaved
C1_Witness ==
    /\ result.kind = "Ok"
    /\ Len(event.inputs) = 3
    /\ event.inputs[1].indexed
    /\ ~event.inputs[2].indexed
    /\ event.inputs[3].indexed
    /\ result.tokens[1] # result.tokens[3]

\* C2: for a non-anonymous event, a call with no topic or with a first topic other
\* than the hash of the signature fails with InvalidData before any decoding; with
\* the hash as first topic, the decoder gets the topics after the first one.
C2_SignatureVerified ==
    (Called /\ ~event.anonymous) =>
        IF Len(topics) = 0 \/ topics[1] # keccak256(event.signature)
        THEN result = Err("InvalidData") /\ calls = <<>>
        ELSE Len(calls) >= 1 /\ calls[1].bytes = Concat(Tail(topics))

\* a log of another event, with further topics and data, is rejected
C2_Witness ==
    /\ ~event.anonymous
    /\ Len(topics) >= 2
    /\ topics[1] # keccak256(event.signature)
    /\ data # <<>>
    /\ result = Err("InvalidData")

\* C3: for an anonymous event no signature topic is read, no call fails before the
\* decoder is called, and the decoder gets all the topics, from the first one on.
C3_AnonymousSkip ==
    (Called /\ event.anonymous) =>
        /\ ~sig_read
        /\ Len(calls) >= 1
        /\ calls[1].bytes = Concat(topics)

\* a successful decode of an anonymous event's log of two topics
C3_Witness ==
    /\ event.anonymous
    /\ Len(topics) = 2
    /\ result.kind = "Ok"

\* C4: in a successful decode, the token of an indexed input of type String, Bytes,
\* Array, FixedArray or Tuple is FixedBytes of the 32 bytes of the topic carrying it.
C4_DynamicIndexedSubstitution ==
    result.kind = "Ok" =>
        \A i \in 1..Len(event.inputs) :
            (event.inputs[i].indexed /\ IsDynamicKind(event.inputs[i].kind)) =>
                /\ Skip + Rank(i) + 1 <= Len(topics)
                /\ result.tokens[i] = Token("FixedBytes", topics[Skip + Rank(i) + 1], <<>>)

\* a successful decode with an indexed Tuple after another indexed input
C4_Witness ==
    /\ result.kind = "Ok"
    /\ \E i \in 2..Len(event.inputs) :
           /\ event.inputs[i].indexed
           /\ event.inputs[i - 1].indexed
           /\ event.inputs[i].kind.tag = "Tuple"

\* C5: when the decoder succeeds on the topics with a number of tokens other than
\* the number of topics after the skip, the call fails with InvalidData and the
\* decoder is not called on data; so a successful decode had exactly as many topics
\* as the skip and the indexed inputs need.
C5_CountMismatch ==
    /\ (Len(calls) >= 1 /\ calls[1].out.kind = "Ok"
            /\ Len(calls[1].out.tokens) + Skip # Len(topics)) =>
           (result = Err("InvalidData") /\ Len(calls) = 1)
    /\ result.kind = "Ok" => Len(topics) = Skip + NumIndexed

\* a log with more topics than the indexed inputs need is rejected
C5_Witness ==
    /\ Len(calls) = 1
    /\ calls[1].out.kind = "Ok"
    /\ NumIndexed >= 1
    /\ Len(topics) > Skip + NumIndexed
    /\ result = Err("InvalidData")

\* C6: an error of the decoder, on the topics or on data, is the error of the call,
\* unchanged; a failing call returns no token.
C6_ErrorPropagated ==
    /\ (Len(calls) >= 1 /\ calls[1].out.kind = "Err") =>
           (result = calls[1].out /\ Len(calls) = 1)
    /\ (Len(calls) = 2 /\ calls[2].out.kind = "Err") => result = calls[2].out
    /\ result.kind # "Ok" => result.tokens = <<>>

\* the decoder fails on data after it decoded tokens from the topics
C6_Witness ==
    /\ Len(calls) = 2
    /\ Len(calls[1].out.tokens) >= 1
    /\ calls[2].out.kind = "Err"
    /\ result = calls[2].out

\* C7: no step changes the Event, and a call repeated on the same log has the same
\* outcome and makes the same calls of the decoder.
C7_SchemaUnchanged ==
    [][/\ event' = event
       /\ (Called /\ result' # NoCall) => (result' = result /\ calls' = calls)]_vars

\* a successful decode of an event with indexed and non-indexed inputs
C7_Witness ==
    /\ result.kind = "Ok"
    /\ NumIndexed >= 1
    /\ NumIndexed < Len(event.inputs)

\* C8: with a decoder that fails or returns one token per type descriptor, no call
\* panics: the subtraction does not go below zero, and the keys of the merged lookup
\* are 0 .. length(inputs) - 1 whenever the reassembly is reached.
C8_NoFault ==
    /\ result.kind # "Panic"
    /\ Len(calls) >= 1 => to_skip(event, topics).skip <= Len(topics)
    /\ (Len(calls) = 2 /\ calls[2].out.kind = "Ok") =>
           /\ DOMAIN named_tokens(indices(event, TRUE), calls[1].out.tokens,
                                  indices(event, FALSE), calls[2].out.tokens)
                  = 0..(Len(event.inputs) - 1)
           /\ result.kind = "Ok"

\* a successful decode of a log without topics, for an event of two inputs or more
C8_Witness ==
    /\ result.kind = "Ok"
    /\ topics = <<>>
    /\ Len(event.inputs) >= 2

\* C9: when the decoder reports success with fewer tokens than type descriptors, so
\* that an input has no token in the merged lookup, the call fails with an error.
C9_DefinedFailure ==
    (/\ Len(calls) = 2
     /\ calls[2].out.kind = "Ok"
     /\ \/ Len(calls[1].out.tokens) < Len(calls[1].types)
        \/ Len(calls[2].out.tokens) < Len(calls[2].types)) =>
        result.kind = "Err"

\* C10, as stated: the type descriptor handed to the decoder for an input is
\* FixedBytes(32) if and only if the input is indexed and of a dynamic type.
C10_FixedBytes32OnlyForDynamicIndexed ==
    Len(calls) = 2 =>
        \A i \in 1..Len(event.inputs) :
            (HandedType(i) = FixedBytes(32)) <=>
                (event.inputs[i].indexed /\ IsDynamicKind(event.inputs[i].kind))

\* C10, amended: the type descriptor handed to the decoder for an input is
\* FixedBytes(32) if the input is indexed and of a dynamic type, and the declared
\* type otherwise; the topic types and the data types keep the order of inputs.
C10_TypeRouting ==
    /\ Len(calls) >= 1 =>
           /\ Len(calls[1].types) = NumIndexed
           /\ \A k \in 1..NumIndexed :
                  calls[1].types[k] = ExpectedType(NthWithFlag(TRUE, k))
    /\ Len(calls) = 2 =>
           /\ Len(calls[2].types) = Len(event.inputs) - NumIndexed
           /\ \A k \in 1..(Len(event.inputs) - NumIndexed) :
                  calls[2].types[k] = event.inputs[NthWithFlag(FALSE, k)].kind

\* both calls of the decoder made for three inputs, a dynamic type among the
\* non-indexed ones and among the indexed ones
C10_Witness ==
    /\ Len(calls) = 2
    /\ Len(event.inputs) = 3
    /\ \E i, j \in 1..3 :
           /\ event.inputs[i].indexed /\ IsDynamicKind(event.inputs[i].kind)
           /\ ~event.inputs[j].indexed /\ IsDynamicKind(event.inputs[j].kind)

====
